---- MODULE Spec2Model ----
(***************************************************************************)
(* A model of the dql query builder (package dql): the five entity kinds,  *)
(* their chained With* mutators and the two renderers of Query.            *)
(*                                                                         *)
(* Go values of type *Attribute, *QueryBlock, ... are pointers: the model  *)
(* keeps one heap per entity kind (a sequence of records), and a pointer   *)
(* is an index into its heap.  Text is a TLA+ string; raw[i] of the Go     *)
(* source (0-based) is SubSeq(raw, i+1, i+1).                              *)
(***************************************************************************)
EXTENDS Integers, Sequences, FiniteSets, TLC

VARIABLES
    attrs,      \* heap of Attribute
    qblocks,    \* heap of QueryBlock
    vblocks,    \* heap of VarBlock
    frags,      \* heap of Fragment
    params,     \* heap of Param
    query,      \* the Query under construction
    ret,        \* what the latest call returned
    rendered,   \* history: the outcomes of the Query renders since the latest builder call
    hist,       \* history: the arguments of the With* calls, in call order
    calls       \* history: the number of builder calls made

vars == <<attrs, qblocks, vblocks, frags, params, query, ret, rendered, hist, calls>>

\* Every field of every entity.
structure == <<attrs, qblocks, vblocks, frags, params, query>>

---------------------------------------------------------------------------
\* Bounds of the model.

\* Builder calls (constructors, With*, field assignments) of one run on
\* Attributes or on a QueryBlock.
MaxCalls == 4
\* With* calls of one run on a Query.
MaxWith == 2

\* Caller-supplied strings.
AttrNames == {"name", "age"}
Aliases == {"", "n"}
DirectiveStrs == {"@d", "(first: 3)"}
BlockNames == {"q", "getUser"}
CriteriaStrs == {"has(user)", "orderasc: name@en"}
QueryNames == {"", "GetUserQuery", "}"}
ParamNames == {"id", "$n"}
ParamTypes == {"string", "int"}
DefaultStrs == {"", "123", "true"}
VarNames == {"", "userVar", "var"}

\* The argument lists of a variadic call: one value of S, or two.
ArgSeqs(S) == {<<x>> : x \in S} \cup {<<x, y>> : x \in S, y \in S}
\* The same, of entities given once each in one call.
ArgSeqsOnce(S) == {args \in ArgSeqs(S) : Len(args) = 2 => args[1] # args[2]}

---------------------------------------------------------------------------
\* Library functions.

RECURSIVE Join(_, _)
Join(elems, sep) ==
    IF Len(elems) = 0 THEN ""
    ELSE IF Len(elems) = 1 THEN elems[1]
    ELSE elems[1] \o sep \o Join(Tail(elems), sep)

RECURSIVE Repeat(_, _)
Repeat(s, count) == IF count = 0 THEN "" ELSE s \o Repeat(s, count - 1)

\* What a call returns: a builder call returns its receiver, a render text,
\* and a render that fails ends the program (ok = FALSE).
Returned(op, recv, ok, text) == [op |-> op, recv |-> recv, ok |-> ok, text |-> text]
NoReturn == Returned("none", 0, TRUE, "")
Receiver == Returned("builder", 0, TRUE, "")
RenderOps == {"Attribute.String", "QueryBlock.String", "Query.String", "Query.PrettyPrint"}
StackOverflow == "fatal error: stack overflow"

\* One more builder call, of at most limit: it returns its receiver.
Built(limit) ==
    /\ calls < limit
    /\ calls' = calls + 1
    /\ ret' = Receiver
    /\ rendered' = {}

---------------------------------------------------------------------------
\* Attribute.

RECURSIVE AttributeString(_)

\* Attribute.String without the test for children: the braces are always added.
AttributeString_AlwaysBraces(a) ==
    LET x == attrs[a]
        c1 == IF x.Alias # "" THEN <<x.Alias, ":">> ELSE <<>>
        c2 == c1 \o <<x.Name>>
        c3 == c2 \o x.Directives
    IN  Join(c3 \o <<"{">>
                \o [i \in 1..Len(x.Attributes) |-> AttributeString(x.Attributes[i])]
                \o <<"}">>, " ")

AttributeString(a) ==
    LET x == attrs[a]
        c1 == IF x.Alias # "" THEN <<x.Alias, ":">> ELSE <<>>
        c2 == c1 \o <<x.Name>>
        c3 == c2 \o x.Directives
        c4 == IF Len(x.Attributes) # 0
              THEN c3 \o <<"{">>
                      \o [i \in 1..Len(x.Attributes) |-> AttributeString(x.Attributes[i])]
                      \o <<"}">>
              ELSE c3
    IN  Join(c4, " ")

\* The recursion of Attribute.String returns iff every path of nested
\* Attributes below a ends: a path longer than the heap repeats an Attribute,
\* and the goroutine's stack is then exhausted.
RECURSIVE Bottoms(_, _)
Bottoms(a, fuel) ==
    /\ fuel > 0
    /\ \A i \in 1..Len(attrs[a].Attributes) : Bottoms(attrs[a].Attributes[i], fuel - 1)

AttributeStringReturns(a) == Bottoms(a, Len(attrs))

NewAttribute(name) ==
    [Alias |-> "", Name |-> name, Directives |-> <<>>, Attributes |-> <<>>]

Attribute_New ==
    \E name \in AttrNames :
        /\ attrs' = Append(attrs, NewAttribute(name))
        /\ hist' = [hist EXCEPT !.dirs = Append(@, <<>>), !.kids = Append(@, <<>>)]
        /\ Built(MaxCalls)
        /\ UNCHANGED <<qblocks, vblocks, frags, params, query>>

\* a.Alias = alias: the field is exported and has no builder method.
SetAlias ==
    \E a \in 1..Len(attrs), alias \in Aliases :
        /\ attrs' = [attrs EXCEPT ![a].Alias = alias]
        /\ Built(MaxCalls)
        /\ UNCHANGED <<qblocks, vblocks, frags, params, query, hist>>

Attribute_WithDirectives ==
    \E a \in 1..Len(attrs), directives \in ArgSeqs(DirectiveStrs) :
        /\ attrs' = [attrs EXCEPT ![a].Directives = @ \o directives]
        /\ hist' = [hist EXCEPT !.dirs[a] = @ \o directives]
        /\ Built(MaxCalls)
        /\ UNCHANGED <<qblocks, vblocks, frags, params, query>>

Attribute_WithAttributes ==
    \E a \in 1..Len(attrs), attributes \in ArgSeqs(1..Len(attrs)) :
        /\ attrs' = [attrs EXCEPT ![a].Attributes = @ \o attributes]
        /\ hist' = [hist EXCEPT !.kids[a] = @ \o attributes]
        /\ Built(MaxCalls)
        /\ UNCHANGED <<qblocks, vblocks, frags, params, query>>

Attribute_String ==
    \E a \in 1..Len(attrs) :
        /\ ret' = IF AttributeStringReturns(a)
                  THEN Returned("Attribute.String", a, TRUE, AttributeString(a))
                  ELSE Returned("Attribute.String", a, FALSE, StackOverflow)
        /\ UNCHANGED <<structure, rendered, hist, calls>>

---------------------------------------------------------------------------
\* QueryBlock.

\* The renders of the Attributes of a block or fragment, in list order.
AttributeStrings(attributes) ==
    [i \in 1..Len(attributes) |-> AttributeString(attributes[i])]

AttributesReturn(attributes) ==
    \A i \in 1..Len(attributes) : AttributeStringReturns(attributes[i])

NewQueryBlock(name, criteria) ==
    [Name |-> name, Criteria |-> <<criteria>>, Directives |-> <<>>, Attributes |-> <<>>]

QueryBlockString(b) ==
    LET qb == qblocks[b]
        c1 == <<qb.Name, "(func: " \o Join(qb.Criteria, ", ") \o ")">>
        c2 == c1 \o qb.Directives
        c3 == c2 \o <<"{">>
        c4 == c3 \o AttributeStrings(qb.Attributes)
        c5 == c4 \o <<"}">>
    IN  Join(c5, " ")

\* WithCriteria that assigns the list instead of appending to it.
QueryBlock_WithCriteria_Assign ==
    \E b \in 1..Len(qblocks), criteria \in ArgSeqs(CriteriaStrs) :
        /\ qblocks' = [qblocks EXCEPT ![b].Criteria = criteria]
        /\ hist' = [hist EXCEPT !.crit[b] = @ \o criteria]
        /\ Built(MaxCalls)
        /\ UNCHANGED <<attrs, vblocks, frags, params, query>>

QueryBlock_WithCriteria ==
    \E b \in 1..Len(qblocks), criteria \in ArgSeqs(CriteriaStrs) :
        /\ qblocks' = [qblocks EXCEPT ![b].Criteria = @ \o criteria]
        /\ hist' = [hist EXCEPT !.crit[b] = @ \o criteria]
        /\ Built(MaxCalls)
        /\ UNCHANGED <<attrs, vblocks, frags, params, query>>

QueryBlock_WithDirectives ==
    \E b \in 1..Len(qblocks), directives \in ArgSeqs(DirectiveStrs) :
        /\ qblocks' = [qblocks EXCEPT ![b].Directives = @ \o directives]
        /\ Built(MaxCalls)
        /\ UNCHANGED <<attrs, vblocks, frags, params, query, hist>>

QueryBlock_WithAttributes ==
    \E b \in 1..Len(qblocks), attributes \in ArgSeqs(1..Len(attrs)) :
        /\ qblocks' = [qblocks EXCEPT ![b].Attributes = @ \o attributes]
        /\ Built(MaxCalls)
        /\ UNCHANGED <<attrs, vblocks, frags, params, query, hist>>

QueryBlock_String ==
    \E b \in 1..Len(qblocks) :
        /\ ret' = IF AttributesReturn(qblocks[b].Attributes)
                  THEN Returned("QueryBlock.String", b, TRUE, QueryBlockString(b))
                  ELSE Returned("QueryBlock.String", b, FALSE, StackOverflow)
        /\ UNCHANGED <<structure, rendered, hist, calls>>

---------------------------------------------------------------------------
\* VarBlock, Fragment, Param.

NewVarBlock(criteria) ==
    [Name |-> "", Criteria |-> criteria, Attributes |-> <<>>, Directives |-> <<>>]

\* String that writes the name and "AS" whatever the name is.
VarBlockString_AlwaysAS(v) ==
    LET vb == vblocks[v]
        c2 == <<vb.Name, "AS", "var", "(func: " \o vb.Criteria \o ")">>
    IN  Join(c2 \o vb.Directives \o <<"{">> \o AttributeStrings(vb.Attributes) \o <<"}">>, " ")

VarBlockString(v) ==
    LET vb == vblocks[v]
        c1 == IF vb.Name # "" THEN <<vb.Name, "AS">> ELSE <<>>
        c2 == c1 \o <<"var", "(func: " \o vb.Criteria \o ")">>
        c3 == c2 \o vb.Directives
        c4 == c3 \o <<"{">>
        c5 == c4 \o AttributeStrings(vb.Attributes)
        c6 == c5 \o <<"}">>
    IN  Join(c6, " ")

VarBlock_WithName ==
    \E v \in 1..Len(vblocks), name \in VarNames :
        /\ vblocks' = [vblocks EXCEPT ![v].Name = name]
        /\ hist' = [hist EXCEPT !.names = Append(@, name)]
        /\ Built(MaxCalls)
        /\ UNCHANGED <<attrs, qblocks, frags, params, query>>

VarBlock_WithDirectives ==
    \E v \in 1..Len(vblocks), directives \in ArgSeqs(DirectiveStrs) :
        /\ vblocks' = [vblocks EXCEPT ![v].Directives = @ \o directives]
        /\ Built(MaxCalls)
        /\ UNCHANGED <<attrs, qblocks, frags, params, query, hist>>

VarBlock_WithAttributes ==
    \E v \in 1..Len(vblocks), attributes \in ArgSeqs(1..Len(attrs)) :
        /\ vblocks' = [vblocks EXCEPT ![v].Attributes = @ \o attributes]
        /\ Built(MaxCalls)
        /\ UNCHANGED <<attrs, qblocks, frags, params, query, hist>>

VarBlock_String ==
    \E v \in 1..Len(vblocks) :
        /\ ret' = IF AttributesReturn(vblocks[v].Attributes)
                  THEN Returned("VarBlock.String", v, TRUE, VarBlockString(v))
                  ELSE Returned("VarBlock.String", v, FALSE, StackOverflow)
        /\ UNCHANGED <<structure, rendered, hist, calls>>

NewFragment(name) == [Name |-> name, Attributes |-> <<>>]

FragmentString(f) ==
    LET c1 == <<"fragment", frags[f].Name>>
        c2 == c1 \o <<"{">>
        c3 == c2 \o AttributeStrings(frags[f].Attributes)
        c4 == c3 \o <<"}">>
    IN  Join(c4, " ")

NewParam(n, t) == [Name |-> n, Type |-> t, Default |-> ""]

ParamString(p) ==
    LET res == params[p].Name \o ": " \o params[p].Type
    IN  IF params[p].Default # "" THEN res \o " = " \o params[p].Default ELSE res

\* WithDefault that keeps a default already set.
Param_WithDefault_FirstWins ==
    \E p \in 1..Len(params), val \in DefaultStrs :
        /\ params' = [params EXCEPT ![p].Default = IF @ = "" THEN val ELSE @]
        /\ hist' = [hist EXCEPT !.def = Append(@, val)]
        /\ Built(MaxCalls)
        /\ UNCHANGED <<attrs, qblocks, vblocks, frags, query>>

Param_WithDefault ==
    \E p \in 1..Len(params), val \in DefaultStrs :
        /\ params' = [params EXCEPT ![p].Default = val]
        /\ hist' = [hist EXCEPT !.def = Append(@, val)]
        /\ Built(MaxCalls)
        /\ UNCHANGED <<attrs, qblocks, vblocks, frags, query>>

Param_String ==
    \E p \in 1..Len(params) :
        /\ ret' = Returned("Param.String", p, TRUE, ParamString(p))
        /\ UNCHANGED <<structure, rendered, hist, calls>>

---------------------------------------------------------------------------
\* Query.

NewQuery(name, queryBlock) ==
    [Name |-> name, Params |-> <<>>, QueryBlocks |-> <<queryBlock>>,
     VarBlocks |-> <<>>, Fragments |-> <<>>]

\* concatenate with the query blocks put before the variable blocks.
concatenate_QueryBlocksFirst ==
    LET q == query
        c1 == IF q.Name # "" THEN <<"query", q.Name>> ELSE <<>>
        paramComps == [i \in 1..Len(q.Params) |-> ParamString(q.Params[i])]
        c2 == IF Len(q.Params) # 0
              THEN c1 \o <<"(">> \o <<Join(paramComps, ", ")>> \o <<")">>
              ELSE c1
        c3 == c2 \o <<"{">>
        c4 == c3 \o [i \in 1..Len(q.QueryBlocks) |-> QueryBlockString(q.QueryBlocks[i])]
        c5 == c4 \o [i \in 1..Len(q.VarBlocks) |-> VarBlockString(q.VarBlocks[i])]
        c6 == c5 \o <<"}">>
    IN  c6 \o [i \in 1..Len(q.Fragments) |-> FragmentString(q.Fragments[i])]

\* concatenate with an empty component after the last one.
concatenate_TrailingEmpty ==
    LET q == query
        c1 == IF q.Name # "" THEN <<"query", q.Name>> ELSE <<>>
        paramComps == [i \in 1..Len(q.Params) |-> ParamString(q.Params[i])]
        c2 == IF Len(q.Params) # 0
              THEN c1 \o <<"(">> \o <<Join(paramComps, ", ")>> \o <<")">>
              ELSE c1
        c3 == c2 \o <<"{">>
        c4 == c3 \o [i \in 1..Len(q.VarBlocks) |-> VarBlockString(q.VarBlocks[i])]
        c5 == c4 \o [i \in 1..Len(q.QueryBlocks) |-> QueryBlockString(q.QueryBlocks[i])]
        c6 == c5 \o <<"}">>
        c7 == c6 \o [i \in 1..Len(q.Fragments) |-> FragmentString(q.Fragments[i])]
    IN  c7 \o <<"">>

concatenate ==
    LET q == query
        c1 == IF q.Name # "" THEN <<"query", q.Name>> ELSE <<>>
        paramComps == [i \in 1..Len(q.Params) |-> ParamString(q.Params[i])]
        c2 == IF Len(q.Params) # 0
              THEN c1 \o <<"(">> \o <<Join(paramComps, ", ")>> \o <<")">>
              ELSE c1
        c3 == c2 \o <<"{">>
        c4 == c3 \o [i \in 1..Len(q.VarBlocks) |-> VarBlockString(q.VarBlocks[i])]
        c5 == c4 \o [i \in 1..Len(q.QueryBlocks) |-> QueryBlockString(q.QueryBlocks[i])]
        c6 == c5 \o <<"}">>
        c7 == c6 \o [i \in 1..Len(q.Fragments) |-> FragmentString(q.Fragments[i])]
    IN  c7

QueryString == Join(concatenate, " ")

\* Query.String returns iff the render of every Attribute it reaches does.
QueryStringReturns ==
    /\ \A i \in 1..Len(query.VarBlocks) :
            AttributesReturn(vblocks[query.VarBlocks[i]].Attributes)
    /\ \A i \in 1..Len(query.QueryBlocks) :
            AttributesReturn(qblocks[query.QueryBlocks[i]].Attributes)
    /\ \A i \in 1..Len(query.Fragments) :
            AttributesReturn(frags[query.Fragments[i]].Attributes)

\* The scan of PrettyPrint: the text, the cursor i (0-based, as in the
\* source), the brace depth, the text written, and the panic that ended it.
step == "  "
NegativeRepeat == "panic: strings: negative Repeat count"
IndexOutOfRange == "panic: runtime error: index out of range"

At(raw, i) == SubSeq(raw, i + 1, i + 1)

PrettyPrintStart(raw) ==
    [raw |-> raw, i |-> 0, indent |-> 0, result |-> "", fault |-> ""]

\* One iteration of the loop, the i++ of the for statement included.
PrettyPrintStep(s) ==
    LET raw == s.raw
        i == s.i
        char == At(raw, i)
    IN  CASE char = "{" ->
                [s EXCEPT !.result = @ \o "{" \o "\n" \o Repeat(step, s.indent + 1),
                          !.indent = @ + 1,
                          !.i = i + 2]
          [] char = "}" ->
                IF s.indent - 1 < 0
                THEN [s EXCEPT !.fault = NegativeRepeat]
                ELSE IF i < Len(raw) - 1 /\ ~(i + 2 < Len(raw))
                THEN [s EXCEPT !.fault = IndexOutOfRange]
                ELSE [s EXCEPT !.result = @ \o "\n" \o Repeat(step, s.indent - 1) \o "}"
                                          \o (IF i < Len(raw) - 1 /\ At(raw, i + 2) # "}"
                                              THEN "\n" ELSE "")
                                          \o Repeat(step, s.indent - 1),
                               !.indent = @ - 1,
                               !.i = i + 2]
          [] OTHER ->
                [s EXCEPT !.result = @ \o char, !.i = i + 1]

\* At most n iterations of the loop, which ends when the cursor leaves the
\* text or a panic ends the program.
RECURSIVE PrettyPrintIterate(_, _)
PrettyPrintIterate(s, n) ==
    IF n = 0 THEN s
    ELSE IF n = 1
    THEN IF s.fault # "" \/ ~(s.i < Len(s.raw)) THEN s ELSE PrettyPrintStep(s)
    ELSE LET half == PrettyPrintIterate(s, n \div 2)
         IN  IF half.fault # "" THEN half
             ELSE PrettyPrintIterate(half, n - (n \div 2))

\* The loop: every iteration moves the cursor on, so Len(raw) iterations end it.
PrettyPrintLoop(s) == PrettyPrintIterate(s, Len(s.raw))

PrettyPrint == PrettyPrintLoop(PrettyPrintStart(QueryString))

Query_WithParam ==
    \E ps \in ArgSeqsOnce(1..Len(params)) :
        /\ query' = [query EXCEPT !.Params = @ \o ps]
        /\ Built(MaxWith)
        /\ UNCHANGED <<attrs, qblocks, vblocks, frags, params, hist>>

Query_WithVarBlocks ==
    \E vbs \in ArgSeqsOnce(1..Len(vblocks)) :
        /\ query' = [query EXCEPT !.VarBlocks = @ \o vbs]
        /\ hist' = [hist EXCEPT !.vb = @ \o vbs]
        /\ Built(MaxWith)
        /\ UNCHANGED <<attrs, qblocks, vblocks, frags, params>>

Query_WithQueryBlocks ==
    \E qbs \in ArgSeqsOnce(1..Len(qblocks)) :
        /\ query' = [query EXCEPT !.QueryBlocks = @ \o qbs]
        /\ hist' = [hist EXCEPT !.qb = @ \o qbs]
        /\ Built(MaxWith)
        /\ UNCHANGED <<attrs, qblocks, vblocks, frags, params>>

Query_WithFragments ==
    \E fragments \in ArgSeqsOnce(1..Len(frags)) :
        /\ query' = [query EXCEPT !.Fragments = @ \o fragments]
        /\ hist' = [hist EXCEPT !.fr = @ \o fragments]
        /\ Built(MaxWith)
        /\ UNCHANGED <<attrs, qblocks, vblocks, frags, params>>

\* Query.String that keeps the header it built in q.Name.
Query_String_KeepsHeader ==
    /\ ret' = Returned("Query.String", 0, TRUE, QueryString)
    /\ rendered' = rendered \cup {ret'}
    /\ query' = [query EXCEPT !.Name = IF @ # "" THEN "query " \o @ ELSE @]
    /\ UNCHANGED <<attrs, qblocks, vblocks, frags, params, hist, calls>>

Query_String ==
    /\ ret' = IF QueryStringReturns
              THEN Returned("Query.String", 0, TRUE, QueryString)
              ELSE Returned("Query.String", 0, FALSE, StackOverflow)
    /\ rendered' = rendered \cup {ret'}
    /\ UNCHANGED <<structure, hist, calls>>

Query_PrettyPrint ==
    /\ ret' = IF ~QueryStringReturns
              THEN Returned("Query.PrettyPrint", 0, FALSE, StackOverflow)
              ELSE LET end == PrettyPrint
                   IN  IF end.fault # ""
                       THEN Returned("Query.PrettyPrint", 0, FALSE, end.fault)
                       ELSE Returned("Query.PrettyPrint", 0, TRUE, end.result)
    /\ rendered' = rendered \cup {ret'}
    /\ UNCHANGED <<structure, hist, calls>>

---------------------------------------------------------------------------
\* The Attribute builder on its own: Attributes are allocated, extended,
\* nested and rendered in any order.

NoQuery == [Name |-> "", Params |-> <<>>, QueryBlocks |-> <<>>,
            VarBlocks |-> <<>>, Fragments |-> <<>>]
NoHist == [dirs |-> <<>>, kids |-> <<>>, crit |-> <<>>,
           vb |-> <<>>, qb |-> <<>>, fr |-> <<>>,
           def |-> <<>>, new |-> <<>>, names |-> <<>>]

InitAttr ==
    /\ attrs = <<>>
    /\ qblocks = <<>>
    /\ vblocks = <<>>
    /\ frags = <<>>
    /\ params = <<>>
    /\ query = NoQuery
    /\ ret = NoReturn
    /\ rendered = {}
    /\ hist = NoHist
    /\ calls = 0

NextAttr ==
    \/ Attribute_New
    \/ SetAlias
    \/ Attribute_WithDirectives
    \/ Attribute_WithAttributes
    \/ Attribute_String

SpecAttr == InitAttr /\ [][NextAttr]_vars

---------------------------------------------------------------------------
\* The QueryBlock builder on its own: the state after
\* NewQueryBlock(n, c0), with two Attributes to add, then any With* calls and
\* renders of the block.

InitBlock ==
    \E n \in BlockNames, c0 \in CriteriaStrs :
        /\ attrs = <<NewAttribute("name"), NewAttribute("age")>>
        /\ qblocks = <<NewQueryBlock(n, c0)>>
        /\ vblocks = <<>>
        /\ frags = <<>>
        /\ params = <<>>
        /\ query = NoQuery
        /\ ret = NoReturn
        /\ rendered = {}
        /\ hist = [NoHist EXCEPT !.dirs = << <<>>, <<>> >>, !.kids = << <<>>, <<>> >>,
                                 !.crit = << <<c0>> >>]
        /\ calls = 0

NextBlock ==
    \/ QueryBlock_WithCriteria
    \/ QueryBlock_WithDirectives
    \/ QueryBlock_WithAttributes
    \/ QueryBlock_String

SpecBlock == InitBlock /\ [][NextBlock]_vars

---------------------------------------------------------------------------
\* The Param builder on its own: the state after NewParam(n, t), then any
\* WithDefault calls and renders of the parameter.

InitParam ==
    \E n \in ParamNames, t \in ParamTypes :
        /\ attrs = <<>>
        /\ qblocks = <<>>
        /\ vblocks = <<>>
        /\ frags = <<>>
        /\ params = <<NewParam(n, t)>>
        /\ query = NoQuery
        /\ ret = NoReturn
        /\ rendered = {}
        /\ hist = [NoHist EXCEPT !.new = <<n, t>>]
        /\ calls = 0

NextParam ==
    \/ Param_WithDefault
    \/ Param_String

SpecParam == InitParam /\ [][NextParam]_vars

---------------------------------------------------------------------------
\* The VarBlock builder on its own: the state after NewVarBlock(c0), with two
\* Attributes to add, then any With* calls and renders of the block.

InitVar ==
    \E c0 \in CriteriaStrs :
        /\ attrs = <<NewAttribute("name"), NewAttribute("age")>>
        /\ qblocks = <<>>
        /\ vblocks = <<NewVarBlock(c0)>>
        /\ frags = <<>>
        /\ params = <<>>
        /\ query = NoQuery
        /\ ret = NoReturn
        /\ rendered = {}
        /\ hist = [NoHist EXCEPT !.dirs = << <<>>, <<>> >>, !.kids = << <<>>, <<>> >>,
                                 !.new = <<c0>>]
        /\ calls = 0

NextVar ==
    \/ VarBlock_WithName
    \/ VarBlock_WithDirectives
    \/ VarBlock_WithAttributes
    \/ VarBlock_String

SpecVar == InitVar /\ [][NextVar]_vars

---------------------------------------------------------------------------
\* The Query builder: the entities a caller has built before, the state
\* after NewQuery(name, queryBlock), then any With* calls and renders of
\* the Query.

\* name, age; uid, friend @d { uid }, id; name, age (of the fragment);
\* a nested selection the caller wrote into the name of one Attribute.
PoolAttrs ==
    <<NewAttribute("name"), NewAttribute("age"),
      NewAttribute("uid"),
      [NewAttribute("friend") EXCEPT !.Directives = <<"@d">>, !.Attributes = <<3>>],
      NewAttribute("id"),
      NewAttribute("name"), NewAttribute("age"),
      NewAttribute("friend {uid}")>>

\* NewQueryBlock("q", "true");
\* NewQueryBlock("getUser", "has(user)").WithAttributes(name, age).
PoolQueryBlocks ==
    <<NewQueryBlock("q", "true"),
      [NewQueryBlock("getUser", "has(user)") EXCEPT !.Attributes = <<1, 2>>]>>

\* NewVarBlock("has(user)").WithName("userVar");
\* NewVarBlock("has(age)").WithDirectives("@d").WithAttributes(friend, id).
PoolVarBlocks ==
    <<[NewVarBlock("has(user)") EXCEPT !.Name = "userVar"],
      [NewVarBlock("has(age)") EXCEPT !.Directives = <<"@d">>, !.Attributes = <<4, 5>>]>>

\* NewFragment("userFragment").WithAttributes(name, age);
\* NewFragment("TestFragB").WithAttributes(NewAttribute("friend {uid}")).
PoolFragments ==
    <<[NewFragment("userFragment") EXCEPT !.Attributes = <<6, 7>>],
      [NewFragment("TestFragB") EXCEPT !.Attributes = <<8>>]>>

\* NewParam("id", "string").WithDefault("123"); NewParam("n", "int").
PoolParams ==
    <<[NewParam("id", "string") EXCEPT !.Default = "123"], NewParam("n", "int")>>

Init ==
    \E name \in QueryNames, queryBlock \in 1..Len(PoolQueryBlocks) :
        /\ attrs = PoolAttrs
        /\ qblocks = PoolQueryBlocks
        /\ vblocks = PoolVarBlocks
        /\ frags = PoolFragments
        /\ params = PoolParams
        /\ query = NewQuery(name, queryBlock)
        /\ ret = NoReturn
        /\ rendered = {}
        /\ hist = [NoHist EXCEPT !.qb = <<queryBlock>>]
        /\ calls = 0

Next ==
    \/ Query_WithParam
    \/ Query_WithVarBlocks
    \/ Query_WithQueryBlocks
    \/ Query_WithFragments
    \/ Query_String
    \/ Query_PrettyPrint

Spec == Init /\ [][Next]_vars

---------------------------------------------------------------------------
\* Properties.

\* The concatenation of a sequence of strings.
RECURSIVE Cat(_)
Cat(ss) == IF Len(ss) = 0 THEN "" ELSE ss[1] \o Cat(Tail(ss))

\* The parents that hold Attribute a in their Attributes list.
Holders(a) ==
    LET holds(heap, kind) ==
            {<<kind, p>> : p \in {p \in 1..Len(heap) :
                \E i \in 1..Len(heap[p].Attributes) : heap[p].Attributes[i] = a}}
    IN  holds(attrs, "Attribute") \cup holds(qblocks, "QueryBlock")
        \cup holds(vblocks, "VarBlock") \cup holds(frags, "Fragment")

\* C8: after any sequence of constructor and With* calls the containment
\* structure is a tree: no Attribute is held by two different parents and no
\* Attribute is its own descendant, so the depth-first render reaches a leaf.
C8_ContainmentIsTree ==
    \A a \in 1..Len(attrs) :
        /\ Cardinality(Holders(a)) <= 1
        /\ AttributeStringReturns(a)

\* The text the claim C9 gives for Attribute a, from the directives and the
\* children in the order the With* calls passed them.
RECURSIVE C9_Expected(_)
C9_Expected(a) ==
    LET ds == hist.dirs[a]
        ks == hist.kids[a]
    IN  (IF attrs[a].Alias # "" THEN attrs[a].Alias \o " : " ELSE "")
        \o attrs[a].Name
        \o Cat([i \in 1..Len(ds) |-> " " \o ds[i]])
        \o (IF Len(ks) > 0
            THEN " {" \o Cat([i \in 1..Len(ks) |-> " " \o C9_Expected(ks[i])]) \o " }"
            ELSE "")

\* C9: Attribute.String() is the single-space join of the alias and ":" (only
\* with a non-empty alias), the name, every directive in the order appended
\* and, only with at least one child, "{", the children's renders in the
\* order appended, "}".
C9_AttributeRender ==
    (ret.op = "Attribute.String" /\ ret.ok) => ret.text = C9_Expected(ret.recv)

\* An Attribute with two different directives and a child has been rendered.
C9_Witness ==
    /\ ret.op = "Attribute.String"
    /\ ret.ok
    /\ Len(attrs[ret.recv].Directives) = 2
    /\ attrs[ret.recv].Directives[1] # attrs[ret.recv].Directives[2]
    /\ Len(attrs[ret.recv].Attributes) > 0


\* The number of places of text s where sub starts.
Occurrences(sub, s) ==
    Cardinality({i \in 1..(Len(s) - Len(sub) + 1) : SubSeq(s, i, i + Len(sub) - 1) = sub})

StartsWith(s, prefix) ==
    Len(prefix) <= Len(s) /\ SubSeq(s, 1, Len(prefix)) = prefix

\* C10: after NewQueryBlock(n, c0) and any WithCriteria calls the criteria
\* list is never empty, and QueryBlock.String() holds exactly one
\* "(func: ...)" clause: c0, then every later criterion in the order
\* appended, joined by ", ".
C10_CriteriaClause ==
    /\ \A b \in 1..Len(qblocks) : Len(qblocks[b].Criteria) > 0
    /\ (ret.op = "QueryBlock.String" /\ ret.ok) =>
          LET cs == hist.crit[ret.recv]
              clause == "(func: " \o cs[1]
                        \o Cat([i \in 1..(Len(cs) - 1) |-> ", " \o cs[i + 1]]) \o ")"
          IN  /\ StartsWith(ret.text, qblocks[ret.recv].Name \o " " \o clause \o " ")
              /\ Occurrences("(func: ", ret.text) = 1

\* A block whose criteria are c0 and two later, different ones has been rendered.
C10_Witness ==
    /\ ret.op = "QueryBlock.String"
    /\ ret.ok
    /\ Len(qblocks[ret.recv].Criteria) = 3
    /\ qblocks[ret.recv].Criteria[2] # qblocks[ret.recv].Criteria[3]

EndsWith(s, suffix) ==
    Len(suffix) <= Len(s) /\ SubSeq(s, Len(s) - Len(suffix) + 1, Len(s)) = suffix

QueryRenderOps == {"Query.String", "Query.PrettyPrint"}

OnlyOneBlock ==
    /\ Len(query.QueryBlocks) = 1
    /\ Len(query.Params) = 0
    /\ Len(query.VarBlocks) = 0
    /\ Len(query.Fragments) = 0

\* Attribute a renders as its bare name.
BareAttribute(a) ==
    /\ attrs[a].Alias = ""
    /\ Len(attrs[a].Directives) = 0
    /\ Len(attrs[a].Attributes) = 0

\* C2: for a Query named N with one QueryBlock named B, one criterion C, no
\* directives and childless attributes a1..ak, Query.String() is exactly
\* "query N { B(func: C) { a1 ... ak } }".
C2_CompactText ==
    LET qb == qblocks[query.QueryBlocks[1]]
    IN  (/\ ret.op = "Query.String"
         /\ ret.ok
         /\ query.Name # ""
         /\ OnlyOneBlock
         /\ Len(qb.Criteria) = 1
         /\ Len(qb.Directives) = 0
         /\ \A i \in 1..Len(qb.Attributes) : BareAttribute(qb.Attributes[i]))
        => ret.text = "query " \o query.Name \o " { "
                      \o qb.Name \o "(func: " \o qb.Criteria[1] \o ") {"
                      \o Cat([i \in 1..Len(qb.Attributes) |->
                                 " " \o attrs[qb.Attributes[i]].Name])
                      \o " } }"

\* C3: for a Query with a non-empty name N and at least one parameter,
\* Query.String() starts with "query N(", the parameters' renders joined by
\* ", ", and ") {".
C3_ParamHeader ==
    (ret.op = "Query.String" /\ ret.ok /\ query.Name # "" /\ Len(query.Params) > 0) =>
        StartsWith(ret.text,
                   "query " \o query.Name \o "("
                   \o Join([i \in 1..Len(query.Params) |-> ParamString(query.Params[i])], ", ")
                   \o ") {")

\* C4: PrettyPrint of a Query holding the single QueryBlock "q" with
\* criterion "true" and no attributes renders the block as the line
\* "q (func: true) {" followed directly by the line of its closing brace,
\* both indented by 2 spaces for their nesting level.
C4_EmptyBlockPretty ==
    LET qb == qblocks[query.QueryBlocks[1]]
    IN  (/\ ret.op = "Query.PrettyPrint"
         /\ ret.ok
         /\ OnlyOneBlock
         /\ qb = NewQueryBlock("q", "true"))
        => Occurrences("\n  q (func: true) {\n  }", ret.text) = 1

\* The character at place i (from 1) of text is alone on its line, after
\* the indentation.
OwnLine(text, i) ==
    /\ i = Len(text) \/ SubSeq(text, i + 1, i + 1) = "\n"
    /\ \E j \in 0..(i - 1) :
          /\ j = 0 \/ SubSeq(text, j, j) = "\n"
          /\ \A k \in (j + 1)..(i - 1) : SubSeq(text, k, k) = " "

\* C5: in the output of PrettyPrint every attribute of a block is on a line
\* of its own, indented by 2 spaces per nesting depth, and every closing
\* brace is on a line of its own with nothing after it.
C5_PrettyLines ==
    (ret.op = "Query.PrettyPrint" /\ ret.ok) =>
        /\ \A i \in 1..Len(query.QueryBlocks) :
              LET as == qblocks[query.QueryBlocks[i]].Attributes
              IN  \A k \in 1..Len(as) :
                      BareAttribute(as[k]) =>
                          Occurrences("\n" \o Repeat(step, 2) \o attrs[as[k]].Name \o "\n",
                                      ret.text) > 0
        /\ \A i \in 1..Len(ret.text) :
              SubSeq(ret.text, i, i) = "}" => OwnLine(ret.text, i)

\* C6: Query.String() and Query.PrettyPrint() are total: whatever strings
\* the caller supplied, the call returns text; the depth counter given to
\* strings.Repeat never becomes negative.
C6_RenderTotal ==
    ret.op \in QueryRenderOps => ret.ok

\* C7: a render changes no field of the Query or of anything it holds, and
\* renders of one kind made in a row, with no builder call in between, give
\* the same outcome.
C7_RenderPure ==
    [][ret'.op \in QueryRenderOps =>
          /\ structure' = structure
          /\ \A r \in rendered : r.op = ret'.op => r = ret']_vars

\* The Query has been rendered both ways in a row, the compact render last.
C7_Witness ==
    /\ ret.op = "Query.String"
    /\ ret.ok
    /\ \E r \in rendered : r.op = "Query.PrettyPrint" /\ r.ok
    /\ Len(query.VarBlocks) > 0

\* C11: Param.String() is "name: type" when WithDefault was never called or
\* the last WithDefault value is the empty string, and "name: type = v"
\* otherwise, v being the value of the last WithDefault call; name and type
\* are those given to NewParam.
C11_ParamRender ==
    ret.op = "Param.String" =>
        LET ds == hist.def
            head == hist.new[1] \o ": " \o hist.new[2]
        IN  ret.text = IF Len(ds) = 0 \/ ds[Len(ds)] = ""
                       THEN head
                       ELSE head \o " = " \o ds[Len(ds)]

\* A parameter given two different non-empty defaults in turn has been
\* rendered.
C11_Witness ==
    /\ ret.op = "Param.String"
    /\ Len(hist.def) = 2
    /\ hist.def[1] # ""
    /\ hist.def[2] # ""
    /\ hist.def[1] # hist.def[2]

\* C12: VarBlock.String() begins with "<name> AS " iff the name last set by
\* WithName is non-empty, and begins directly with "var" otherwise; in both
\* cases "var" is followed by the one "(func: ...)" clause, which holds the
\* criteria given to NewVarBlock unchanged, whatever With* calls were made.
C12_VarBlockRender ==
    (ret.op = "VarBlock.String" /\ ret.ok) =>
        LET ns == hist.names
            name == IF Len(ns) = 0 THEN "" ELSE ns[Len(ns)]
            prefix == IF name # "" THEN name \o " AS " ELSE ""
        IN  /\ StartsWith(ret.text, name \o " AS ") <=> name # ""
            /\ name = "" => StartsWith(ret.text, "var")
            /\ StartsWith(ret.text, prefix \o "var (func: " \o hist.new[1] \o ") ")
            /\ Occurrences("(func: ", ret.text) = 1
            /\ vblocks[ret.recv].Criteria = hist.new[1]

\* A block named, then given the empty name again, then given directives and
\* attributes has been rendered.
C12_Witness ==
    /\ ret.op = "VarBlock.String"
    /\ ret.ok
    /\ Len(hist.names) = 2
    /\ hist.names[1] # ""
    /\ hist.names[2] = ""
    /\ Len(vblocks[ret.recv].Directives) > 0
    /\ Len(vblocks[ret.recv].Attributes) > 0

\* The text without its spaces and newlines.
RECURSIVE Strip(_)
Strip(s) ==
    IF Len(s) = 0 THEN ""
    ELSE IF Len(s) = 1 THEN (IF s = " " \/ s = "\n" THEN "" ELSE s)
    ELSE LET h == Len(s) \div 2
         IN  Strip(SubSeq(s, 1, h)) \o Strip(SubSeq(s, h + 1, Len(s)))

\* C13: the character the PrettyPrint scan skips after each '{' and '}' is
\* always a separator space, whatever strings the caller supplied: the
\* output of PrettyPrint and Query.String() are the same text once spaces
\* and newlines are removed from both.
C13_NothingDropped ==
    (ret.op = "Query.PrettyPrint" /\ ret.ok) => Strip(ret.text) = Strip(QueryString)

\* C14: the lookahead raw[i+2] of the PrettyPrint scan is inside the text:
\* the compact text ends with a space and '}', so for every '}' at a place
\* i < len(raw)-1, i+2 <= len(raw)-1, and no PrettyPrint call ends with an
\* index out of range, whatever strings the caller supplied.
C14_LookaheadInside ==
    /\ QueryStringReturns =>
          LET raw == QueryString
          IN  /\ EndsWith(raw, " }")
              /\ \A i \in 0..(Len(raw) - 1) :
                    (At(raw, i) = "}" /\ i < Len(raw) - 1) => i + 2 <= Len(raw) - 1
    /\ ret.op = "Query.PrettyPrint" => ret.text # IndexOutOfRange

\* PrettyPrint has returned the text of a Query whose compact text holds a
\* '}' as near to the end as it can be, two places before the last '}'.
C14_Witness ==
    /\ ret.op = "Query.PrettyPrint"
    /\ ret.ok
    /\ Len(query.Fragments) > 0
    /\ At(QueryString, Len(QueryString) - 3) = "}"

====
